---- MODULE Spec2Model ----
(***************************************************************************)
(* Trade-flow analytics of app.py: main fetches the spot and the perpetual *)
(* trade tables one after the other and runs analyze_market on each        *)
(* (calculate_cvd, categorize_trades, analyze_liquidity,                   *)
(* analyze_market_maker_activity, direction).                              *)
(*                                                                         *)
(* Numbers.  Quantities, prices and timestamps are integers and all sums   *)
(* are exact.  A quotient the code computes in floating point is kept as   *)
(* the pair [num, den]; the quantile thresholds are kept multiplied by     *)
(* Scale.  A float NaN is the value NaN.  Rounding of binary floating      *)
(* point is outside the model.                                             *)
(* Time.  One unit of datetime is half an hour, so the '1H' resampling     *)
(* rule is Timeframe = 2 units.                                            *)
(* Not modelled: avg_price_impact and cvd_volatility (no exception can     *)
(* come from them and nothing below reads them).                           *)
(***************************************************************************)
EXTENDS Integers, Sequences, FiniteSets, TLC

VARIABLES pc, df, volume_percentiles, liquidity, analysis, direction, error, report

vars == <<pc, df, volume_percentiles, liquidity, analysis, direction, error, report>>

\* ------------------------------------------------------------------ bounds
MaxLen == 3
MaxQuantity == 2
MaxPrice == 2
MaxTime == 4
FlowMaxLen == 4
WindowMaxLen == 3
MainMaxLen == 2

\* ------------------------------------------------------- program constants
Timeframe == 2
Scale == 20

\* A float that is a number is the record [num, den]; NaN, None and a local
\* not yet assigned are records of their own.
NaN == [nan |-> TRUE]
None == [none |-> TRUE]
Unset == [unset |-> TRUE]

Float(x) == [num |-> x, den |-> 1]

Sides == {"buy", "sell"}
Markets == {"SPOT", "PERP"}

Trade == [datetime : 0..MaxTime, price : 1..MaxPrice,
          quantity : 0..MaxQuantity, side : Sides]

\* Rows that differ in what the CVD, the categories and the statistics read:
\* quantity and side.
FlowTrade == [datetime : {0}, price : {1},
              quantity : 0..MaxQuantity, side : Sides]

\* Rows that differ in what the windows and their volumes read: datetime and
\* quantity.
WindowTrade == [datetime : 0..MaxTime, price : {1},
                quantity : 0..MaxQuantity, side : {"buy"}]

TablesOf(rows, len) == UNION {[1..n -> rows] : n \in 0..len}

\* ----------------------------------------------------------------- helpers
RECURSIVE SumSeq(_)
SumSeq(s) == IF Len(s) = 0 THEN 0 ELSE s[1] + SumSeq(Tail(s))

Column(d, c) == [i \in 1..Len(d) |-> d[i][c]]

Min2(a, b) == IF a <= b THEN a ELSE b

Max2(a, b) == IF a >= b THEN a ELSE b

RECURSIVE SeqMin(_)
SeqMin(s) == IF Len(s) = 1 THEN s[1] ELSE Min2(s[1], SeqMin(Tail(s)))

RECURSIVE SeqMax(_)
SeqMax(s) == IF Len(s) = 1 THEN s[1] ELSE Max2(s[1], SeqMax(Tail(s)))

\* ------------------------------------------------------------ calculate_cvd
\* The sign of a sell is lost.
volume_delta_unsigned(x) == x.quantity

volume_delta(x) == IF x.side = "buy" THEN x.quantity ELSE 0 - x.quantity

\* The .cumsum() call is left out.
cumsum_missing(s) == s

\* Series.cumsum: a left-to-right running sum.
RECURSIVE cumsum(_)
cumsum(s) ==
  IF Len(s) = 0 THEN <<>>
  ELSE LET init == cumsum(SubSeq(s, 1, Len(s) - 1))
           prev == IF Len(init) = 0 THEN 0 ELSE init[Len(init)]
       IN Append(init, prev + s[Len(s)])

calculate_cvd(d) ==
  LET vd == [i \in 1..Len(d) |-> volume_delta(d[i])]
      c  == cumsum(vd)
  IN [i \in 1..Len(d) |->
        [datetime |-> d[i].datetime, price |-> d[i].price,
         quantity |-> d[i].quantity, side |-> d[i].side,
         volume_delta |-> vd[i], cvd |-> c[i]]]

\* DataFrame.apply(axis=1) on a table without rows yields a DataFrame, not a
\* Series; assigning it to the single column volume_delta raises or not
\* with the pandas release, so both outcomes are kept.
calculate_cvd_raises(d) == IF Len(d) = 0 THEN {TRUE, FALSE} ELSE {FALSE}

\* -------------------------------------------------------- categorize_trades
RECURSIVE Insert(_, _)
Insert(s, v) ==
  IF Len(s) = 0 THEN <<v>>
  ELSE IF v < s[1] THEN <<v>> \o s
  ELSE <<s[1]>> \o Insert(Tail(s), v)

RECURSIVE SortValues(_)
SortValues(s) == IF Len(s) = 0 THEN <<>> ELSE Insert(SortValues(Tail(s)), s[1])

\* Series.quantile(q), linear interpolation, for q = num / Scale; the result
\* is the quantile multiplied by Scale.  NaN on an empty series.
quantile(s, num) ==
  IF Len(s) = 0 THEN NaN
  ELSE LET srt == SortValues(s)
           h   == (Len(s) - 1) * num
           lo  == (h \div Scale) + 1
           hi  == Min2(lo + 1, Len(s))
       IN Scale * srt[lo] + (h % Scale) * (srt[hi] - srt[lo])

quantiles(d) ==
  LET q == Column(d, "quantity")
  IN [p50 |-> quantile(q, 10), p75 |-> quantile(q, 15), p90 |-> quantile(q, 18)]

\* The first comparison is turned round.
np_select_flipped(quantity, vp) ==
  IF quantity * Scale > vp.p50 THEN "small"
  ELSE IF quantity * Scale >= vp.p50 /\ quantity * Scale < vp.p75 THEN "medium"
  ELSE IF quantity * Scale >= vp.p75 THEN "large"
  ELSE "small"

\* np.select(conditions, categories, default='small'): the first condition
\* that holds decides.
np_select(quantity, vp) ==
  IF quantity * Scale < vp.p50 THEN "small"
  ELSE IF quantity * Scale >= vp.p50 /\ quantity * Scale < vp.p75 THEN "medium"
  ELSE IF quantity * Scale >= vp.p75 THEN "large"
  ELSE "small"

categorize_trades(d) ==
  LET vp == quantiles(d)
  IN [i \in 1..Len(d) |->
        [datetime |-> d[i].datetime, price |-> d[i].price,
         quantity |-> d[i].quantity, side |-> d[i].side,
         volume_delta |-> d[i].volume_delta, cvd |-> d[i].cvd,
         category |-> np_select(d[i].quantity, vp)]]

\* No statement of categorize_trades raises: quantile of an empty column is
\* NaN and np.select of empty conditions is an empty array.
categorize_trades_raises(d) == FALSE

\* -------------------------------------------------------- analyze_liquidity
\* resample sorts the rows by the index with a stable sort.
RECURSIVE InsertByTime(_, _)
InsertByTime(s, r) ==
  IF Len(s) = 0 THEN <<r>>
  ELSE IF r.datetime < s[1].datetime THEN <<r>> \o s
  ELSE <<s[1]>> \o InsertByTime(Tail(s), r)

RECURSIVE SortByTime(_)
SortByTime(d) ==
  IF Len(d) = 0 THEN <<>>
  ELSE InsertByTime(SortByTime(SubSeq(d, 1, Len(d) - 1)), d[Len(d)])

\* The bin is closed on both sides.
InWindow_closed(t, start) == start <= t /\ t <= start + Timeframe

\* The bin that starts at start is closed on the left, open on the right.
InWindow(t, start) == start <= t /\ t < start + Timeframe

WindowStart(t) == (t \div Timeframe) * Timeframe

WindowRow(srt, start) ==
  LET In(r) == InWindow(r.datetime, start)
      rows  == SelectSeq(srt, In)
      n     == Len(rows)
      px    == Column(rows, "price")
  IN [start  |-> start,
      volume |-> SumSeq(Column(rows, "quantity")),
      open   |-> IF n = 0 THEN NaN ELSE Float(px[1]),
      close  |-> IF n = 0 THEN NaN ELSE Float(px[n]),
      low    |-> IF n = 0 THEN NaN ELSE Float(SeqMin(px)),
      high   |-> IF n = 0 THEN NaN ELSE Float(SeqMax(px)),
      cvd    |-> IF n = 0 THEN NaN ELSE Float(rows[n].cvd),
      volatility |-> IF n = 0 THEN NaN
                     ELSE [num |-> (SeqMax(px) - SeqMin(px)) * 100, den |-> px[1]]]

analyze_liquidity(d) ==
  IF Len(d) = 0 THEN <<>>
  ELSE LET srt   == SortByTime(d)
           first == WindowStart(srt[1].datetime)
           last  == WindowStart(srt[Len(srt)].datetime)
           count == ((last - first) \div Timeframe) + 1
       IN [k \in 1..count |-> WindowRow(srt, first + (k - 1) * Timeframe)]

\* -------------------------------------------- analyze_market_maker_activity
CategoryStats(d, cat) ==
  LET IsCat(r)  == r.category = cat
      IsBuy(r)  == r.side = "buy"
      IsSell(r) == r.side = "sell"
      cat_df == SelectSeq(d, IsCat)
      buys   == SelectSeq(cat_df, IsBuy)
      sells  == SelectSeq(cat_df, IsSell)
      bv     == SumSeq(Column(buys, "quantity"))
      sv     == SumSeq(Column(sells, "quantity"))
  IN [total_trades |-> Len(cat_df),
      buy_trades   |-> Len(buys),
      sell_trades  |-> Len(sells),
      buy_volume   |-> bv,
      sell_volume  |-> sv,
      net_volume   |-> bv - sv,
      avg_trade_size |-> IF Len(cat_df) = 0 THEN NaN
                         ELSE [num |-> SumSeq(Column(cat_df, "quantity")),
                               den |-> Len(cat_df)]]

\* mm_volume / total_volume * 100 on numpy floats: 0.0 / 0.0 is NaN.
market_maker_dominance(mm_volume, total_volume) ==
  IF total_volume = 0 THEN NaN
  ELSE [num |-> mm_volume * 100, den |-> total_volume]

\* df['cvd'].iloc[-1] raises IndexError on a table without rows.
analyze_market_maker_activity_raises(d) == Len(d) = 0

analyze_market_maker_activity(d) ==
  LET large == CategoryStats(d, "large")
      cvd   == Column(d, "cvd")
  IN [small  |-> CategoryStats(d, "small"),
      medium |-> CategoryStats(d, "medium"),
      large  |-> large,
      market_maker_dominance |->
        market_maker_dominance(large.buy_volume + large.sell_volume,
                               SumSeq(Column(d, "quantity"))),
      cvd_stats |-> [final_cvd |-> cvd[Len(cvd)],
                     max_cvd   |-> SeqMax(cvd),
                     min_cvd   |-> SeqMin(cvd)]]

\* ----------------------------------------------------------- analyze_market
\* Zero counts as bullish.
market_direction_ge(final_cvd) == IF final_cvd >= 0 THEN "BULLISH" ELSE "BEARISH"

market_direction(final_cvd) == IF final_cvd > 0 THEN "BULLISH" ELSE "BEARISH"

\* The locals of analyze_market when it returns, and the stage whose
\* exception the except clause logged ("" when none).
Returned(d, vp, liq, an, dir, err) ==
  [df |-> d, volume_percentiles |-> vp, liquidity |-> liq, analysis |-> an,
   direction |-> dir, error |-> err]

\* direction before the if statement assigns it.
NoDirection == "unset"

analyze_market_run(d0, cvd_raises) ==
  IF cvd_raises
  THEN Returned(d0, Unset, Unset, None, NoDirection, "calculate_cvd")
  ELSE LET d1 == calculate_cvd(d0)
       IN IF categorize_trades_raises(d1)
          THEN Returned(d1, Unset, Unset, None, NoDirection, "categorize_trades")
          ELSE LET d2  == categorize_trades(d1)
                   vp  == quantiles(d1)
                   liq == analyze_liquidity(d2)
               IN IF analyze_market_maker_activity_raises(d2)
                  THEN Returned(d2, vp, liq, None, NoDirection,
                                "analyze_market_maker_activity")
                  ELSE LET an == analyze_market_maker_activity(d2)
                       IN Returned(d2, vp, liq, an,
                                   market_direction(an.cvd_stats.final_cvd), "")

\* --------------------------------------------------------------------- main
FetchPc(m) == IF m = "SPOT" THEN "fetch_spot" ELSE "fetch_perp"

AnalyzePc(m) == IF m = "SPOT" THEN "analyze_spot" ELSE "analyze_perp"

\* Where main goes on when the try body of market m has completed.
main_next(m) == IF m = "SPOT" THEN "fetch_perp" ELSE "done"

\* No except clause: the exception leaves main.
main_except_propagates(m) == "done"

\* Where main goes on when the except clause of market m has caught and
\* logged an exception: at the statement after the try statement.
main_except(m) == IF m = "SPOT" THEN "fetch_perp" ELSE "done"

\* fetch_trade_data: lakeapi.load_data raises (logged, re-raised, caught by
\* main) or returns a table.
FetchTradeData(m) ==
  /\ pc = FetchPc(m)
  /\ volume_percentiles' = Unset
  /\ liquidity' = Unset
  /\ analysis' = Unset
  /\ direction' = NoDirection
  /\ \/ /\ df' = <<>>
        /\ error' = "fetch_trade_data"
        /\ report' = [report EXCEPT ![m] = "fetch_error"]
        /\ pc' = main_except(m)
     \/ /\ df' \in TablesOf(FlowTrade, MainMaxLen)
        /\ error' = ""
        /\ report' = report
        /\ pc' = AnalyzePc(m)

AnalyzeMarket(m) ==
  /\ pc = AnalyzePc(m)
  /\ \E cvd_raises \in calculate_cvd_raises(df) :
      \E r \in {analyze_market_run(df, cvd_raises)} :
        /\ df' = r.df
        /\ volume_percentiles' = r.volume_percentiles
        /\ liquidity' = r.liquidity
        /\ analysis' = r.analysis
        /\ direction' = r.direction
        /\ error' = r.error
        /\ report' = [report EXCEPT ![m] = IF r.error # "" THEN "None"
                                           ELSE "analysis"]
  /\ pc' = main_next(m)

\* main: both markets, one after the other.
InitMain ==
  /\ pc = "fetch_spot"
  /\ df = <<>>
  /\ volume_percentiles = Unset
  /\ liquidity = Unset
  /\ analysis = Unset
  /\ direction = NoDirection
  /\ error = ""
  /\ report = [m \in Markets |-> "not_run"]

NextMain ==
  \/ FetchTradeData("SPOT")
  \/ AnalyzeMarket("SPOT")
  \/ FetchTradeData("PERP")
  \/ AnalyzeMarket("PERP")

SpecMain == InitMain /\ [][NextMain]_vars

\* analyze_market entered with one of the given tables.
InitAnalyze(tables) ==
  /\ pc = "analyze_spot"
  /\ df \in tables
  /\ volume_percentiles = Unset
  /\ liquidity = Unset
  /\ analysis = Unset
  /\ direction = NoDirection
  /\ error = ""
  /\ report = [m \in Markets |-> "not_run"]

Next == AnalyzeMarket("SPOT")

\* Every field of every row varies.
Init == InitAnalyze(TablesOf(Trade, MaxLen))

Spec == Init /\ [][Next]_vars

\* Longer tables; quantity and side vary.
InitFlow == InitAnalyze(TablesOf(FlowTrade, FlowMaxLen))

SpecFlow == InitFlow /\ [][Next]_vars

\* datetime and quantity vary.
InitWindows == InitAnalyze(TablesOf(WindowTrade, WindowMaxLen))

SpecWindows == InitWindows /\ [][Next]_vars

\* ------------------------------------------------------------------ claims
\* analyze_market has returned from the run whose locals the state holds.
Ran ==
  \/ pc = "fetch_perp" /\ report["SPOT"] \in {"None", "analysis"}
  \/ pc = "done" /\ report["PERP"] \in {"None", "analysis"}

\* ... and it returned an analysis.
HasAnalysis == Ran /\ error = ""

Size == Len(df)

Rank(c) == IF c = "small" THEN 1 ELSE IF c = "medium" THEN 2 ELSE 3

\* C1: volume_delta[i] is +quantity[i] for a buy and -quantity[i] otherwise;
\* cvd[1] = volume_delta[1], cvd[i] = cvd[i-1] + volume_delta[i] for i > 1,
\* and the last cvd equals the sum of all volume_delta.
C1_CvdIsPrefixSum ==
  (HasAnalysis /\ Size > 0) =>
    /\ \A i \in 1..Size :
         df[i].volume_delta = IF df[i].side = "buy" THEN df[i].quantity
                              ELSE 0 - df[i].quantity
    /\ df[1].cvd = df[1].volume_delta
    /\ \A i \in 2..Size : df[i].cvd = df[i - 1].cvd + df[i].volume_delta
    /\ df[Size].cvd = SumSeq(Column(df, "volume_delta"))

C1_Witness ==
  /\ HasAnalysis
  /\ Size = 3
  /\ Column(df, "volume_delta") = <<2, -1, -2>>
  /\ Column(df, "cvd") = <<2, 1, -1>>

\* C2: every row of a non-empty table gets exactly one of small, medium,
\* large, and for two rows with quantities a <= b the category of a is not
\* above the category of b.
C2_CategoryMonotone ==
  (HasAnalysis /\ Size > 0) =>
    /\ \A i \in 1..Size : df[i].category \in {"small", "medium", "large"}
    /\ \A i, j \in 1..Size :
         df[i].quantity <= df[j].quantity =>
           Rank(df[i].category) <= Rank(df[j].category)

C2_Witness ==
  /\ HasAnalysis
  /\ {df[i].category : i \in 1..Size} = {"small", "medium", "large"}
  /\ \E i, j \in 1..Size : i # j /\ df[i].quantity = df[j].quantity

\* C3: the windows partition the input: every trade falls in exactly one
\* left-closed window of the fixed duration, the per-window volumes add up
\* to the total quantity of the table, and the windows are contiguous,
\* non-overlapping and ascending by start.
C3_WindowsPartition ==
  (HasAnalysis /\ Size > 0) =>
    /\ \A i \in 1..Size :
         Cardinality({k \in 1..Len(liquidity) :
                        /\ liquidity[k].start <= df[i].datetime
                        /\ df[i].datetime < liquidity[k].start + Timeframe}) = 1
    /\ SumSeq(Column(liquidity, "volume")) = SumSeq(Column(df, "quantity"))
    /\ \A k \in 1..(Len(liquidity) - 1) :
         liquidity[k + 1].start = liquidity[k].start + Timeframe

C3_Witness ==
  /\ HasAnalysis
  /\ Len(liquidity) = 2
  /\ \E i, j \in 1..Size :
       /\ i < j
       /\ df[i].datetime = liquidity[2].start
       /\ df[j].datetime < liquidity[2].start
       /\ df[i].quantity > 0
       /\ df[j].quantity > 0

\* C4: market_maker_dominance lies in [0, 100] when the total quantity is
\* > 0, and is an explicit undefined marker, not a NaN, when it is 0.
C4_DominanceDefinedOrFlagged ==
  HasAnalysis =>
    LET total == SumSeq(Column(df, "quantity"))
        dom   == analysis.market_maker_dominance
    IN IF total > 0
       THEN dom # NaN /\ 0 <= dom.num /\ dom.num <= 100 * dom.den
       ELSE dom # NaN

\* C6: on a table without rows the categorizer raises, the read of the final
\* CVD raises, analyze_market returns None, and analyze_liquidity returns no
\* window.
C6_EmptyBatchFailsInCategorizer ==
  (Ran /\ Size = 0) =>
    /\ categorize_trades_raises(df)
    /\ analyze_market_maker_activity_raises(df)
    /\ analysis = None
    /\ analyze_liquidity(df) = <<>>

\* The rest of C6: on a table without rows the read of the final CVD raises,
\* analyze_market returns None and analyze_liquidity returns no window.
EmptyBatchReturnsNone ==
  (Ran /\ Size = 0) =>
    /\ error \in {"calculate_cvd", "analyze_market_maker_activity"}
    /\ analyze_market_maker_activity_raises(df)
    /\ analysis = None
    /\ report["SPOT"] = "None"
    /\ analyze_liquidity(df) = <<>>

\* C7: analyze_liquidity emits no row for a window without trades whose
\* open, close, low, high or volatility is NaN.
C7_NoUnflaggedEmptyWindow ==
  HasAnalysis =>
    \A k \in 1..Len(liquidity) :
      (\A i \in 1..Size : ~ (/\ liquidity[k].start <= df[i].datetime
                             /\ df[i].datetime < liquidity[k].start + Timeframe))
        => /\ liquidity[k].open # NaN
           /\ liquidity[k].close # NaN
           /\ liquidity[k].low # NaN
           /\ liquidity[k].high # NaN
           /\ liquidity[k].volatility # NaN

\* Row i is not after row j in time order (arrival order breaks ties).
NotAfter(i, j) ==
  \/ df[i].datetime < df[j].datetime
  \/ df[i].datetime = df[j].datetime /\ i <= j

RowsOf(k) ==
  {i \in 1..Size : /\ liquidity[k].start <= df[i].datetime
                   /\ df[i].datetime < liquidity[k].start + Timeframe}

Earliest(k) == CHOOSE i \in RowsOf(k) : \A j \in RowsOf(k) : NotAfter(i, j)

Latest(k) == CHOOSE i \in RowsOf(k) : \A j \in RowsOf(k) : NotAfter(j, i)

RECURSIVE SumOver(_, _)
SumOver(f, S) ==
  IF S = {} THEN 0
  ELSE LET x == CHOOSE y \in S : TRUE IN f[x] + SumOver(f, S \ {x})

\* The running CVD in time order at row i.
TemporalCvd(i) ==
  SumOver([j \in 1..Size |-> df[j].volume_delta],
          {j \in 1..Size : NotAfter(j, i)})

\* The open and close of every non-empty window are the prices of its
\* earliest and latest trade, whatever the arrival order.
OpenCloseInTimeOrder ==
  HasAnalysis =>
    \A k \in 1..Len(liquidity) :
      RowsOf(k) # {} =>
        /\ liquidity[k].open = Float(df[Earliest(k)].price)
        /\ liquidity[k].close = Float(df[Latest(k)].price)

\* C8: for every table, sorted by time or not, each non-empty window has
\* open = price of its earliest trade, close = price of its latest trade
\* and cvd = the running CVD in time order at that latest trade.
C8_WindowsInTimeOrder ==
  HasAnalysis =>
    \A k \in 1..Len(liquidity) :
      RowsOf(k) # {} =>
        /\ liquidity[k].open = Float(df[Earliest(k)].price)
        /\ liquidity[k].close = Float(df[Latest(k)].price)
        /\ liquidity[k].cvd = Float(TemporalCvd(Latest(k)))

\* C9: the direction is BULLISH exactly when the final CVD is > 0 and
\* BEARISH when it is <= 0; BUY 1, SELL 2, BUY 1 gives cvd = [1, -1, 0] and
\* BEARISH.
C9_DirectionBySign ==
  HasAnalysis =>
    /\ (direction = "BULLISH") <=> (df[Size].cvd > 0)
    /\ (direction = "BEARISH") <=> (df[Size].cvd <= 0)
    /\ analysis.cvd_stats.final_cvd = df[Size].cvd
    /\ (/\ Column(df, "side") = <<"buy", "sell", "buy">>
        /\ Column(df, "quantity") = <<1, 2, 1>>)
         => /\ Column(df, "cvd") = <<1, -1, 0>>
            /\ direction = "BEARISH"

C9_Witness ==
  /\ HasAnalysis
  /\ Column(df, "side") = <<"buy", "sell", "buy">>
  /\ Column(df, "quantity") = <<1, 2, 1>>
  /\ analysis.cvd_stats.final_cvd = 0
  /\ direction = "BEARISH"

\* C10: the three categories partition the rows (their total_trades add up
\* to the row count and buy_trades + sell_trades = total_trades in each),
\* and their net_volume adds up to final_cvd.
C10_StatsConsistentWithCvd ==
  (HasAnalysis /\ \A i \in 1..Size : df[i].side \in {"buy", "sell"}) =>
    /\ analysis.small.total_trades + analysis.medium.total_trades
         + analysis.large.total_trades = Size
    /\ \A c \in {"small", "medium", "large"} :
         analysis[c].buy_trades + analysis[c].sell_trades
           = analysis[c].total_trades
    /\ analysis.small.net_volume + analysis.medium.net_volume
         + analysis.large.net_volume = analysis.cvd_stats.final_cvd

C10_Witness ==
  /\ HasAnalysis
  /\ \A c \in {"small", "medium", "large"} : analysis[c].total_trades = 1
  /\ analysis.small.sell_trades = 1
  /\ analysis.large.sell_trades = 1
  /\ analysis.medium.net_volume > 0
  /\ analysis.cvd_stats.final_cvd < 0

\* What the run whose locals the state holds must have reported.
RunOutcome ==
  IF error = "fetch_trade_data" THEN "fetch_error"
  ELSE IF Size = 0 THEN "None" ELSE "analysis"

C5_BothRunsAttempted ==
  /\ pc \in {"fetch_perp", "analyze_perp", "done"} => report["SPOT"] # "not_run"
  /\ pc = "fetch_perp" => report["SPOT"] = RunOutcome
  /\ pc = "done" => report["PERP"] = RunOutcome
  /\ (pc \in {"fetch_perp", "done"} /\ RunOutcome = "analysis")
       => analysis # None /\ analysis # Unset

SpotOutcomeKept ==
  pc \in {"fetch_perp", "analyze_perp"} => report'["SPOT"] = report["SPOT"]

\* C5: the two runs are independent units of failure: whatever the outcome
\* of the spot run (fetch error, analysis error, analysis), the perpetual run
\* is attempted; each run that does not itself fail produces its analysis;
\* and the perpetual run leaves the spot outcome as it was.
C5_RunsIndependent == []C5_BothRunsAttempted /\ [][SpotOutcomeKept]_vars

C5_Witness ==
  /\ pc = "done"
  /\ report["SPOT"] = "fetch_error"
  /\ report["PERP"] = "analysis"

====
